---- MODULE Spec2Model ----
(***************************************************************************)
(* mlcache: a multi-level cache.  A cacher holds a doubly linked chain of  *)
(* caches (level 1 = head ... level N = tail), a read pattern, a write     *)
(* pattern and a value size cutoff.  Get/Put/Del/IsPresent/Flush walk the  *)
(* chain; CacheAside, WriteBack and Flush start goroutines that run        *)
(* concurrently with the caller.                                           *)
(*                                                                         *)
(* One action is one call into a level (a Cacher of the chain) together    *)
(* with the orchestrator code around it, so that goroutines interleave     *)
(* with a running call between two level calls, as they do in the program. *)
(* Expiry times are passed through unchanged by the code and are left out. *)
(***************************************************************************)
EXTENDS Integers, Sequences, FiniteSets, TLC

\* ------------------------------------------------------------------ bounds
\* Largest number of caches handed to NewMultiLevelCache (above 256, so
\* that uint8(len(caches)) wraps).
MaxSupplied == 260
\* Read/write pattern arguments tried at construction: 0..MaxPattern.
MaxPattern == 3
\* Values are byte strings over 1..MaxByte of length 0..MaxValLen, or nil.
MaxValLen == 1
MaxByte == 1
\* maxValSize arguments tried at construction: 0..MaxSizeArg.
MaxSizeArg == 1
\* Number of orchestrator calls one behaviour makes.
MaxCalls == 2
\* Number of level calls that fail in one behaviour.
MaxFaults == 1
\* Number of CacheKey objects the sync.Pool allocates.
MaxKeyObjects == 2
\* Longest chain in the behaviours that make and release keys.
MaxPoolLevels == 3
\* Longest chain and number of calls in the behaviours of one caller that
\* puts and gets under WriteAround.
MaxSeqLevels == 3
MaxSeqCalls == 4
\* Longest chain and number of calls in the behaviours of one caller that
\* gets under CacheAside and puts under WriteThrough.
MaxAsideLevels == 3
MaxAsideCalls == 2

\* ------------------------------------------------------- program constants
ReadThrough == 0
CacheAside == 1
endR == 2
WriteThrough == 0
WriteAround == 1
WriteBack == 2
endW == 3
maxCaches == 5

CacheStatusSuccess == TRUE
CacheStatusFailure == FALSE

NoWorkableCacheFound == "No workable cache found"
MaxCacheLevelExceeded == "Max cache level exceeded"
MaxValLenExceeded == "Max val len exceeded"
InvalidReadPattern == "Invalid read pattern"
InvalidWritePattern == "Invalid write pattern"
GetError == "Get error"
PutError == "Put error"
DelError == "Del error"
IsPresentError == "IsPresent error"

\* The nil error, the nil *CacheKey / *lCache, the nil *bytes.Buffer.
NilErr == "<nil>"
Nil == 0
NilBuf == {}
\* What a nil pointer dereference leaves in place of a result.
Panic == "panic: nil pointer dereference"

\* uint8(x)
Uint8(x) == x % 256

\* ------------------------------------------------------------------- errs
\* errs.New
New(userMessage) == IF userMessage = "" THEN NilErr ELSE userMessage

\* errs.Build: err.Error() on a nil err panics.
Build(err, userMessage) ==
    IF userMessage = "" THEN err
    ELSE IF err = NilErr THEN Panic
    ELSE err \o "; " \o userMessage

\* --------------------------------------------------------------- validate
validate(numCaches, readPattern, writePattern) ==
    IF numCaches = 0 THEN New(NoWorkableCacheFound)
    ELSE IF numCaches > maxCaches THEN New(MaxCacheLevelExceeded)
    ELSE IF readPattern >= endR THEN New(InvalidReadPattern)
    ELSE IF writePattern >= endW THEN New(InvalidWritePattern)
    ELSE NilErr

\* ------------------------------------------------------ NewMultiLevelCache
\* An lCache node: cur is the index (1-based) of the supplied cache it wraps.
lCacheNoPrev(cur, prev, next) == [cur |-> cur, prev |-> Nil, next |-> next]
lCache(cur, prev, next) == [cur |-> cur, prev |-> prev, next |-> next]

NoCacher ==
    [l1Cache |-> Nil, lnCache |-> Nil, numCaches |-> 0,
     readPattern |-> 0, writePattern |-> 0, maxValSize |-> 0]

\* for ci < numCaches { eCache.next = &lCache{caches[ci], eCache, nil}; ... }
\* Node ids are given out in allocation order; eCache is the last node.
RECURSIVE LinkCaches(_, _, _, _)
LinkCaches(ci, numCaches, eCache, heap) ==
    IF ci < numCaches
    THEN LET new == eCache + 1
             linked == [heap EXCEPT ![eCache].next = new]
         IN LinkCaches(ci + 1, numCaches, new,
                       linked @@ (new :> lCache(ci + 1, eCache, Nil)))
    ELSE [eCache |-> eCache, heap |-> heap]

\* The result of NewMultiLevelCache(readPattern, writePattern, maxValSize,
\* caches...) with len(caches) = nCaches: the cacher (isNil when nil is
\* returned), the chain nodes it points into, and the error.
NewMultiLevelCache(readPattern, writePattern, maxValSize, nCaches) ==
    LET numCaches == Uint8(nCaches)
        err == validate(numCaches, readPattern, writePattern)
    IN IF err # NilErr
       THEN [isNil |-> TRUE, ca |-> NoCacher, heap |-> <<>>, err |-> err]
       ELSE LET sCache == 1
                built == LinkCaches(1, numCaches, sCache,
                                    sCache :> lCache(1, Nil, Nil))
            IN [isNil |-> FALSE,
                ca |-> [l1Cache |-> sCache, lnCache |-> built.eCache,
                        numCaches |-> numCaches,
                        readPattern |-> readPattern,
                        writePattern |-> writePattern,
                        maxValSize |-> maxValSize],
                heap |-> built.heap,
                err |-> NilErr]

\* ----------------------------------------------------------------- values
RECURSIVE SeqsUpTo(_, _)
SeqsUpTo(S, n) ==
    IF n = 0 THEN {<<>>}
    ELSE LET shorter == SeqsUpTo(S, n - 1)
         IN shorter \cup {Append(s, b) : s \in shorter, b \in S}

\* The contents a *bytes.Buffer can have; a buffer pointer is NilBuf or {b}.
Bytes == SeqsUpTo(1..MaxByte, MaxValLen)
Buffers == {NilBuf} \cup {{b} : b \in Bytes}
\* val.Len()
BufLen(val) == Len(CHOOSE b \in val : TRUE)

\* --------------------------------------------------------- the level caches
\* mockCacher: a map from key strings to buffers.
EmptyMap == <<>>
mockGet(m, k) ==
    IF k \in DOMAIN m THEN [val |-> m[k], err |-> NilErr]
    ELSE [val |-> NilBuf, err |-> New("Could not get item")]
mockPut(m, k, val) == (k :> val) @@ m
mockDel(m, k) == [x \in DOMAIN m \ {k} |-> m[x]]
mockIsPresent(m, k) ==
    IF k \in DOMAIN m THEN CacheStatusSuccess ELSE CacheStatusFailure

\* A level call either behaves as mockCacher does ("ok"), or fails without
\* touching the level: with an error ("err"), or with CacheStatusFailure and
\* a nil error ("fail").
LevelError == "level error"
StatusOf(f) == IF f = "ok" THEN CacheStatusSuccess ELSE CacheStatusFailure
ErrOf(f) == IF f = "err" THEN LevelError ELSE NilErr

\* ------------------------------------------------------------------ state
VARIABLES
    args,     \* the arguments NewMultiLevelCache was called with
    made,     \* "no" before NewMultiLevelCache has run, then "ok" or "err"
    ca,       \* the cacher
    heap,     \* the lCache nodes of the chain, by node id
    newErr,   \* the error NewMultiLevelCache returned
    cache,    \* cache[b]: the map of the b-th supplied cache, for the
              \* caches the chain wraps
    keyStr,   \* keyStr[o]: the key field of CacheKey object o
    pool,     \* the CacheKey objects that Done() has put in the sync.Pool
    pc,       \* where the caller is: "idle", inside a call, or "panic"
    frame,    \* the running call's key, val, this and lower
    ret,      \* what the last finished call returned
    prev,     \* what the call before it returned
    log,      \* the level calls and go statements of the running (or
              \* last) call, in order
    pre,      \* cache as it was when the running (or last) call began
    quiet,    \* no goroutine has touched a level since that call began
    tasks,    \* the goroutines started and not yet finished, oldest first
    callsLeft,  \* number of orchestrator calls the caller still makes
    faultsLeft  \* number of level calls that may still fail

cfgVars == <<args, made, ca, heap, newErr>>
keyVars == <<keyStr, pool>>
vars == <<args, made, ca, heap, newErr, cache, keyStr, pool, pc, frame, ret,
          prev, log, pre, quiet, tasks, callsLeft, faultsLeft>>

NoFrame == [key |-> Nil, val |-> NilBuf, this |-> Nil, lower |-> Nil]
NoRet == [op |-> "none", key |-> Nil, k |-> "", val |-> NilBuf, lvl |-> 0,
          status |-> CacheStatusFailure, err |-> NilErr]

\* cacheKey.AsString()
AsString(key) == keyStr[key]
\* The level (1 = head) a chain node stands for, and the node's cache.
Cur(node) == heap[node].cur

\* The outcomes a level call may have, and what a failed one costs.
Outcomes == IF faultsLeft > 0 THEN {"ok", "err", "fail"} ELSE {"ok"}
GetOutcomes == IF faultsLeft > 0 THEN {"ok", "err"} ELSE {"ok"}
Fault(f) == faultsLeft' = faultsLeft - (IF f = "ok" THEN 0 ELSE 1)

\* lower.cur.Put(key, val, ttl) and friends, on the whole cache state.
LevelPut(c, node, key, val, f) ==
    IF f = "ok" THEN [c EXCEPT ![Cur(node)] = mockPut(@, AsString(key), val)]
    ELSE c
LevelDel(c, node, key, f) ==
    IF f = "ok" THEN [c EXCEPT ![Cur(node)] = mockDel(@, AsString(key))]
    ELSE c
LevelGet(c, node, key, f) ==
    IF f = "ok" THEN mockGet(c[Cur(node)], AsString(key))
    ELSE [val |-> NilBuf, err |-> LevelError]
LevelFlush(c, node, f) ==
    IF f = "ok" THEN [c EXCEPT ![Cur(node)] = EmptyMap] ELSE c

\* if err != nil || status == CacheStatusFailure
Failed(status, err) == err # NilErr \/ status = CacheStatusFailure

\* A call begins: the bookkeeping every call shares.
Begin ==
    /\ pc = "idle"
    /\ made = "ok"
    /\ callsLeft > 0
    /\ callsLeft' = callsLeft - 1
    /\ log' = <<>>
    /\ pre' = cache
    /\ quiet' = TRUE

\* A call returns r; a nil dereference on the way ends the program.
Return(r) ==
    /\ pc' = IF r.err = Panic THEN "panic" ELSE "idle"
    /\ prev' = ret
    /\ ret' = r
    /\ frame' = NoFrame

\* The call calls op on node's cache; it starts a goroutine for node.
Logged(op, node) == log' = Append(log, <<op, Cur(node)>>)
Went(node) == <<"go", IF node = Nil THEN 0 ELSE Cur(node)>>

\* ---------------------------------------------------------- construction
ArgSets ==
    [readPattern : 0..MaxPattern, writePattern : 0..MaxPattern,
     maxValSize : 0..MaxSizeArg, nCaches : 0..MaxSupplied]

Unbuilt(a) ==
    /\ args = a
    /\ made = "no"
    /\ ca = NoCacher
    /\ heap = <<>>
    /\ newErr = NilErr

Built(a) ==
    LET r == NewMultiLevelCache(a.readPattern, a.writePattern,
                                a.maxValSize, a.nCaches)
    IN /\ args = a
       /\ made = IF r.isNil THEN "err" ELSE "ok"
       /\ ca = r.ca
       /\ heap = r.heap
       /\ newErr = r.err

\* The caller's side when the orchestrator is handed over: the caches with
\* contents c, one CacheKey made, nothing running, n calls and m failing
\* level calls to come.
Start(c, n, m) ==
    /\ cache = c
    /\ keyStr = (1 :> "k1")
    /\ pool = {}
    /\ pc = "idle"
    /\ frame = NoFrame
    /\ ret = NoRet
    /\ prev = NoRet
    /\ log = <<>>
    /\ pre = cache
    /\ quiet = TRUE
    /\ tasks = <<>>
    /\ callsLeft = n
    /\ faultsLeft = m

\* Caches as NewMockCacher makes them.
Fresh(nCaches) == [b \in 1..nCaches |-> EmptyMap]
\* Caches that hold the key already, each with any value or none.
Warm(nCaches) ==
    [1..nCaches -> {EmptyMap} \cup {"k1" :> {b} : b \in Bytes}]

\* The call of NewMultiLevelCache itself.
Construct ==
    LET r == NewMultiLevelCache(args.readPattern, args.writePattern,
                                args.maxValSize, args.nCaches)
    IN /\ made = "no"
       /\ made' = IF r.isNil THEN "err" ELSE "ok"
       /\ ca' = r.ca
       /\ heap' = r.heap
       /\ newErr' = r.err
       /\ args' = args
       /\ cache' = [b \in 1..r.ca.numCaches |-> EmptyMap]
       /\ pre' = cache'
       /\ UNCHANGED <<keyVars, pc, frame, ret, prev, log, quiet, tasks,
                      callsLeft, faultsLeft>>

InitNew == \E a \in ArgSets : Unbuilt(a) /\ Start(<<>>, 0, 0)
SpecNew == InitNew /\ [][Construct]_vars

\* ------------------------------------------------------------- goroutines
\* A goroutine: kind "wb" (WriteBack propagation), "ca" (CacheAside
\* backfill) or "flush"; at is the chain node whose cache it calls next
\* (Nil: nothing left); asleep is the WriteBack delay not yet over.
Task(kind, key, val, at, asleep) ==
    [kind |-> kind, key |-> key, val |-> val, at |-> at, asleep |-> asleep]

Without(i) == [j \in 1..(Len(tasks) - 1) |->
                  IF j < i THEN tasks[j] ELSE tasks[j + 1]]

\* upper = upper.next / lower = lower.prev
UpperNextNone(node) == Nil
UpperNext(node) == heap[node].next
LowerNextNone(node) == Nil
LowerNext(node) == heap[node].prev

\* ------------------------------------------------------------------- Put
\* val != nil && val.Len() > ca.maxValSize
TooLongOrEqual(val, maxValSize) == val # NilBuf /\ BufLen(val) >= maxValSize
TooLong(val, maxValSize) == val # NilBuf /\ BufLen(val) > maxValSize

\* The node a Put starts from under each write pattern.
PutFirstHead(writePattern) == ca.l1Cache
PutFirst(writePattern) ==
    IF writePattern = WriteAround THEN ca.lnCache ELSE ca.l1Cache
PutLabelNoStore(writePattern) ==
    IF writePattern = WriteThrough THEN "put_wt"
    ELSE IF writePattern = WriteAround THEN "put_wa"
    ELSE "put_ret"
PutLabel(writePattern) ==
    IF writePattern = WriteThrough THEN "put_wt"
    ELSE IF writePattern = WriteAround THEN "put_wa"
    ELSE "put_wb"

PutRet(key, val, status, err) ==
    [op |-> "Put", key |-> key, k |-> IF key = Nil THEN "" ELSE AsString(key),
     val |-> val, lvl |-> 0, status |-> status, err |-> err]

\* Put with its two checks the other way round.
PutCallSizeFirst(key, val) ==
    /\ Begin
    /\ IF TooLong(val, ca.maxValSize)
       THEN Return(PutRet(key, val, CacheStatusFailure,
                          New(MaxValLenExceeded)))
       ELSE IF key = Nil
       THEN Return(PutRet(key, val, CacheStatusFailure, New(PutError)))
       ELSE /\ pc' = PutLabel(ca.writePattern)
            /\ frame' = [NoFrame EXCEPT !.key = key, !.val = val,
                                        !.this = PutFirst(ca.writePattern)]
            /\ UNCHANGED <<ret, prev>>
    /\ UNCHANGED <<cfgVars, cache, keyVars, tasks, faultsLeft>>

\* Put is entered: the nil key and size checks, then the switch.
PutCall(key, val) ==
    /\ Begin
    /\ IF key = Nil
       THEN Return(PutRet(key, val, CacheStatusFailure, New(PutError)))
       ELSE IF TooLong(val, ca.maxValSize)
       THEN Return(PutRet(key, val, CacheStatusFailure,
                          New(MaxValLenExceeded)))
       ELSE /\ pc' = PutLabel(ca.writePattern)
            /\ frame' = [NoFrame EXCEPT !.key = key, !.val = val,
                                        !.this = PutFirst(ca.writePattern)]
            /\ UNCHANGED <<ret, prev>>
    /\ UNCHANGED <<cfgVars, cache, keyVars, tasks, faultsLeft>>

\* case WriteThrough: one turn of the loop over this.
PutWriteThrough ==
    /\ pc = "put_wt"
    /\ \E f \in Outcomes :
        /\ Fault(f)
        /\ cache' = LevelPut(cache, frame.this, frame.key, frame.val, f)
        /\ Logged("Put", frame.this)
        /\ IF Failed(StatusOf(f), ErrOf(f))
           THEN Return(PutRet(frame.key, frame.val, CacheStatusFailure,
                              Build(ErrOf(f), PutError)))
           ELSE IF UpperNext(frame.this) = Nil
           THEN Return(PutRet(frame.key, frame.val, CacheStatusSuccess,
                              NilErr))
           ELSE /\ frame' = [frame EXCEPT !.this = UpperNext(frame.this)]
                /\ UNCHANGED <<pc, ret, prev>>
    /\ UNCHANGED <<cfgVars, keyVars, pre, quiet, tasks, callsLeft>>

\* case WriteAround
PutWriteAround ==
    /\ pc = "put_wa"
    /\ \E f \in Outcomes :
        /\ Fault(f)
        /\ cache' = LevelPut(cache, frame.this, frame.key, frame.val, f)
        /\ Logged("Put", frame.this)
        /\ IF Failed(StatusOf(f), ErrOf(f))
           THEN Return(PutRet(frame.key, frame.val, CacheStatusFailure,
                              Build(ErrOf(f), PutError)))
           ELSE Return(PutRet(frame.key, frame.val, CacheStatusSuccess,
                              NilErr))
    /\ UNCHANGED <<cfgVars, keyVars, pre, quiet, tasks, callsLeft>>

\* case WriteBack: the put in level 1 and, when it succeeds, the go
\* statement.  The goroutine starts asleep (time.Sleep(writeBackDelay)).
PutWriteBack ==
    /\ pc = "put_wb"
    /\ \E f \in Outcomes :
        /\ Fault(f)
        /\ cache' = LevelPut(cache, frame.this, frame.key, frame.val, f)
        /\ IF Failed(StatusOf(f), ErrOf(f))
           THEN /\ Return(PutRet(frame.key, frame.val, CacheStatusFailure,
                                 Build(ErrOf(f), PutError)))
                /\ Logged("Put", frame.this)
                /\ UNCHANGED tasks
           ELSE /\ tasks' = Append(tasks, Task("wb", frame.key, frame.val,
                                               frame.this, TRUE))
                /\ log' = log \o <<<<"Put", Cur(frame.this)>>,
                                    Went(frame.this)>>
                /\ pc' = "put_ret"
                /\ UNCHANGED <<frame, ret, prev>>
    /\ UNCHANGED <<cfgVars, keyVars, pre, quiet, callsLeft>>

\* return CacheStatusSuccess, nil after the go statement.
PutReturn ==
    /\ pc = "put_ret"
    /\ Return(PutRet(frame.key, frame.val, CacheStatusSuccess, NilErr))
    /\ UNCHANGED <<cfgVars, cache, keyVars, log, pre, quiet, tasks, callsLeft,
                   faultsLeft>>

\* time.Sleep(writeBackDelay): the delay (200ms) outlasts the return
\* statement that follows the go statement, which calls nothing.
DelayOverAtOnce == TRUE
DelayOver == pc # "put_ret"

\* The WriteBack goroutine's sleep ends and it reads upper := this.next
\* (and ends at once when there is no upper level).
WriteBackWake(i) ==
    /\ pc # "panic"
    /\ DelayOver
    /\ tasks[i].kind = "wb"
    /\ tasks[i].asleep
    /\ tasks' = IF UpperNext(tasks[i].at) = Nil
                THEN Without(i)
                ELSE [tasks EXCEPT ![i].asleep = FALSE,
                                   ![i].at = UpperNext(tasks[i].at)]
    /\ UNCHANGED <<cfgVars, cache, keyVars, pc, frame, ret, prev, log, pre,
                   quiet, callsLeft, faultsLeft>>

\* if err != nil || status == CacheStatusFailure { break }
WriteBackGoesOn(status, err) == FALSE
WriteBackBreaks(status, err) == Failed(status, err)

\* One turn of the WriteBack goroutine's loop: a failed put breaks it.
WriteBackStep(i) ==
    /\ pc # "panic"
    /\ tasks[i].kind = "wb"
    /\ ~tasks[i].asleep
    /\ tasks[i].at # Nil
    /\ \E f \in Outcomes :
        /\ Fault(f)
        /\ cache' = LevelPut(cache, tasks[i].at, tasks[i].key, tasks[i].val, f)
        /\ tasks' = IF \/ WriteBackBreaks(StatusOf(f), ErrOf(f))
                       \/ UpperNext(tasks[i].at) = Nil
                    THEN Without(i)
                    ELSE [tasks EXCEPT ![i].at = UpperNext(tasks[i].at)]
    /\ quiet' = FALSE
    /\ UNCHANGED <<cfgVars, keyVars, pc, frame, ret, prev, log, pre, callsLeft>>

\* One turn of the CacheAside goroutine's loop: the put's result is dropped.
BackfillStep(i) ==
    /\ pc # "panic"
    /\ tasks[i].kind = "ca"
    /\ tasks[i].at # Nil
    /\ \E f \in Outcomes :
        /\ Fault(f)
        /\ cache' = LevelPut(cache, tasks[i].at, tasks[i].key, tasks[i].val, f)
        /\ tasks' = IF LowerNext(tasks[i].at) = Nil
                    THEN Without(i)
                    ELSE [tasks EXCEPT ![i].at = LowerNext(tasks[i].at)]
    /\ quiet' = FALSE
    /\ UNCHANGED <<cfgVars, keyVars, pc, frame, ret, prev, log, pre, callsLeft>>

\* go cache.Flush()
FlushStep(i) ==
    /\ pc # "panic"
    /\ tasks[i].kind = "flush"
    /\ \E f \in GetOutcomes :
        /\ Fault(f)
        /\ cache' = LevelFlush(cache, tasks[i].at, f)
    /\ tasks' = Without(i)
    /\ quiet' = FALSE
    /\ UNCHANGED <<cfgVars, keyVars, pc, frame, ret, prev, log, pre, callsLeft>>

\* A CacheAside goroutine started by a hit in level 1 finds lower = nil.
BackfillNone(i) ==
    /\ pc # "panic"
    /\ tasks[i].kind = "ca"
    /\ tasks[i].at = Nil
    /\ tasks' = Without(i)
    /\ UNCHANGED <<cfgVars, cache, keyVars, pc, frame, ret, prev, log, pre,
                   quiet, callsLeft, faultsLeft>>

\* ------------------------------------------------------------------- Get
GetRet(key, val, lvl, err) ==
    [op |-> "Get", key |-> key, k |-> IF key = Nil THEN "" ELSE AsString(key),
     val |-> val, lvl |-> lvl, status |-> err = NilErr, err |-> err]

GetCall(key) ==
    /\ Begin
    /\ IF key = Nil
       THEN Return(GetRet(key, NilBuf, 0, New(GetError)))
       ELSE /\ pc' = "get"
            /\ frame' = [NoFrame EXCEPT !.key = key, !.this = ca.l1Cache]
            /\ UNCHANGED <<ret, prev>>
    /\ UNCHANGED <<cfgVars, cache, keyVars, tasks, faultsLeft>>

\* One lookup of the scan (both read patterns): cache.Get(key), its error
\* dropped.  On a hit ReadThrough goes on to backfill (or returns when there
\* is no lower level) and CacheAside executes its go statement; on a miss in
\* the last level Get returns nil, nil.
GetLookup ==
    /\ pc = "get"
    /\ \E f \in GetOutcomes :
        LET got == LevelGet(cache, frame.this, frame.key, f)
        IN /\ Fault(f)
           /\ log' = log \o <<<<"Get", Cur(frame.this)>>>>
                       \o IF got.val # NilBuf /\ ca.readPattern = CacheAside
                          THEN <<Went(LowerNext(frame.this))>>
                          ELSE <<>>
           /\ IF got.val # NilBuf
              THEN IF ca.readPattern = ReadThrough
                   THEN /\ IF LowerNext(frame.this) = Nil
                           THEN Return(GetRet(frame.key, got.val,
                                              Cur(frame.this), NilErr))
                           ELSE /\ pc' = "fill"
                                /\ frame' = [frame EXCEPT
                                       !.val = got.val,
                                       !.lower = LowerNext(frame.this)]
                                /\ UNCHANGED <<ret, prev>>
                        /\ UNCHANGED tasks
                   ELSE /\ tasks' = Append(tasks,
                               Task("ca", frame.key, got.val,
                                    LowerNext(frame.this), FALSE))
                        /\ pc' = "get_ret"
                        /\ frame' = [frame EXCEPT !.val = got.val]
                        /\ UNCHANGED <<ret, prev>>
              ELSE /\ IF UpperNext(frame.this) = Nil
                      THEN Return(GetRet(frame.key, NilBuf, 0, NilErr))
                      ELSE /\ frame' = [frame EXCEPT
                                           !.this = UpperNext(frame.this)]
                           /\ UNCHANGED <<pc, ret, prev>>
                   /\ UNCHANGED tasks
    /\ UNCHANGED <<cfgVars, cache, keyVars, pre, quiet, callsLeft>>

GetBackfillOnce ==
    /\ pc = "fill"
    /\ \E f \in Outcomes :
        /\ Fault(f)
        /\ cache' = LevelPut(cache, frame.lower, frame.key, frame.val, f)
        /\ Logged("Put", frame.lower)
        /\ IF Failed(StatusOf(f), ErrOf(f))
           THEN Return(GetRet(frame.key, NilBuf, Cur(frame.this), ErrOf(f)))
           ELSE Return(GetRet(frame.key, frame.val, Cur(frame.this), NilErr))
    /\ UNCHANGED <<cfgVars, keyVars, pre, quiet, tasks, callsLeft>>

\* ReadThrough: one put of the backfill loop over lower.  A failed put
\* returns nil and the put's own err.
GetBackfill ==
    /\ pc = "fill"
    /\ \E f \in Outcomes :
        /\ Fault(f)
        /\ cache' = LevelPut(cache, frame.lower, frame.key, frame.val, f)
        /\ Logged("Put", frame.lower)
        /\ IF Failed(StatusOf(f), ErrOf(f))
           THEN Return(GetRet(frame.key, NilBuf, Cur(frame.this), ErrOf(f)))
           ELSE IF LowerNext(frame.lower) = Nil
           THEN Return(GetRet(frame.key, frame.val, Cur(frame.this), NilErr))
           ELSE /\ frame' = [frame EXCEPT !.lower = LowerNext(frame.lower)]
                /\ UNCHANGED <<pc, ret, prev>>
    /\ UNCHANGED <<cfgVars, keyVars, pre, quiet, tasks, callsLeft>>

\* CacheAside: return val, ttl, nil after the go statement.
GetReturn ==
    /\ pc = "get_ret"
    /\ Return(GetRet(frame.key, frame.val, Cur(frame.this), NilErr))
    /\ UNCHANGED <<cfgVars, cache, keyVars, log, pre, quiet, tasks, callsLeft,
                   faultsLeft>>

\* ------------------------------------------------------------------- Del
DelRet(key, status, err) ==
    [op |-> "Del", key |-> key, k |-> IF key = Nil THEN "" ELSE AsString(key),
     val |-> NilBuf, lvl |-> 0, status |-> status, err |-> err]

DelCall(key) ==
    /\ Begin
    /\ IF key = Nil
       THEN Return(DelRet(key, CacheStatusFailure, New(DelError)))
       ELSE /\ pc' = "del"
            /\ frame' = [NoFrame EXCEPT !.key = key, !.this = ca.lnCache]
            /\ UNCHANGED <<ret, prev>>
    /\ UNCHANGED <<cfgVars, cache, keyVars, tasks, faultsLeft>>

\* One turn of the loop from level n down to level 1.
DelStep ==
    /\ pc = "del"
    /\ \E f \in Outcomes :
        /\ Fault(f)
        /\ cache' = LevelDel(cache, frame.this, frame.key, f)
        /\ Logged("Del", frame.this)
        /\ IF Failed(StatusOf(f), ErrOf(f))
           THEN Return(DelRet(frame.key, CacheStatusFailure,
                              Build(ErrOf(f), DelError)))
           ELSE IF LowerNext(frame.this) = Nil
           THEN Return(DelRet(frame.key, CacheStatusSuccess, NilErr))
           ELSE /\ frame' = [frame EXCEPT !.this = LowerNext(frame.this)]
                /\ UNCHANGED <<pc, ret, prev>>
    /\ UNCHANGED <<cfgVars, keyVars, pre, quiet, tasks, callsLeft>>

\* ------------------------------------------------------------- IsPresent
IsPresentRet(key, status, err) ==
    [op |-> "IsPresent", key |-> key,
     k |-> IF key = Nil THEN "" ELSE AsString(key),
     val |-> NilBuf, lvl |-> 0, status |-> status, err |-> err]

IsPresentCall(key) ==
    /\ Begin
    /\ IF key = Nil
       THEN Return(IsPresentRet(key, CacheStatusFailure, New(IsPresentError)))
       ELSE /\ pc' = "isp"
            /\ frame' = [NoFrame EXCEPT !.key = key, !.this = ca.l1Cache]
            /\ UNCHANGED <<ret, prev>>
    /\ UNCHANGED <<cfgVars, cache, keyVars, tasks, faultsLeft>>

\* cache.IsPresent(key) on level 1: mockCacher answers a missing key with
\* CacheStatusFailure and a nil error.
IsPresentStep ==
    /\ pc = "isp"
    /\ \E f \in GetOutcomes :
        LET status == IF f = "ok"
                      THEN mockIsPresent(cache[Cur(frame.this)],
                                         AsString(frame.key))
                      ELSE CacheStatusFailure
        IN /\ Fault(f)
           /\ Logged("IsPresent", frame.this)
           /\ IF Failed(status, ErrOf(f))
              THEN Return(IsPresentRet(frame.key, CacheStatusFailure,
                                       Build(ErrOf(f), IsPresentError)))
              ELSE Return(IsPresentRet(frame.key, CacheStatusSuccess, NilErr))
    /\ UNCHANGED <<cfgVars, cache, keyVars, pre, quiet, tasks, callsLeft>>

\* ----------------------------------------------------------------- Flush
FlushTasksHead(this) ==
    IF this = Nil THEN <<>> ELSE <<[kind |-> "flush", key |-> Nil,
                                    val |-> NilBuf, at |-> this,
                                    asleep |-> FALSE]>>

FlushRet ==
    [op |-> "Flush", key |-> Nil, k |-> "", val |-> NilBuf, lvl |-> 0,
     status |-> CacheStatusSuccess, err |-> NilErr]

\* for this != nil { go cache.Flush(); this = this.next }
RECURSIVE FlushTasks(_), FlushLog(_)
FlushTasks(this) ==
    IF this = Nil THEN <<>>
    ELSE <<Task("flush", Nil, NilBuf, this, FALSE)>>
             \o FlushTasks(UpperNext(this))

FlushLog(this) ==
    IF this = Nil THEN <<>> ELSE <<Went(this)>> \o FlushLog(UpperNext(this))

\* Flush calls no level itself: the whole call is one step.
Flush ==
    /\ pc = "idle"
    /\ made = "ok"
    /\ callsLeft > 0
    /\ callsLeft' = callsLeft - 1
    /\ pre' = cache
    /\ quiet' = TRUE
    /\ log' = FlushLog(ca.l1Cache)
    /\ tasks' = tasks \o FlushTasks(ca.l1Cache)
    /\ Return(FlushRet)
    /\ UNCHANGED <<cfgVars, cache, keyVars, faultsLeft>>

\* ------------------------------------------------------- the specification
\* The keys a caller passes: nil, or a CacheKey it holds (not one it has
\* released).
Keys == {Nil} \cup (DOMAIN keyStr \ pool)

\* The caller starts a call.
Call ==
    \/ \E key \in Keys, val \in Buffers : PutCall(key, val)
    \/ \E key \in Keys : GetCall(key)
    \/ \E key \in Keys : DelCall(key)
    \/ \E key \in Keys : IsPresentCall(key)
    \/ Flush

\* The running call goes on.
Step ==
    \/ PutWriteThrough
    \/ PutWriteAround
    \/ PutWriteBack
    \/ PutReturn
    \/ GetLookup
    \/ GetBackfill
    \/ GetReturn
    \/ DelStep
    \/ IsPresentStep

\* A goroutine goes on.
Background ==
    \/ \E i \in 1..Len(tasks) : WriteBackWake(i)
    \/ \E i \in 1..Len(tasks) : WriteBackStep(i)
    \/ \E i \in 1..Len(tasks) : BackfillStep(i)
    \/ \E i \in 1..Len(tasks) : BackfillNone(i)
    \/ \E i \in 1..Len(tasks) : FlushStep(i)

\* The orchestrators NewMultiLevelCache hands out, over fresh caches.
Init ==
    \E a \in ArgSets :
        /\ a.nCaches <= maxCaches + 1
        /\ Built(a)
        /\ made = "ok"
        /\ Start(Fresh(ca.numCaches), MaxCalls, MaxFaults)

Next == Call \/ Step \/ Background

Spec == Init /\ [][Next]_vars

\* The same orchestrators over caches that already hold the key in some
\* levels (the caches are the caller's), for one call and what it starts.
InitWarm ==
    \E a \in ArgSets :
        /\ a.nCaches <= maxCaches + 1
        /\ Built(a)
        /\ made = "ok"
        /\ \E c \in Warm(ca.numCaches) : Start(c, 1, MaxFaults)

SpecWarm == InitWarm /\ [][Next]_vars

\* The same in a program that keeps running: a goroutine that can run
\* does run.
SpecLive == InitWarm /\ [][Next]_vars /\ WF_vars(Background)

\* ------------------------------------------------------- the key pool
\* The key strings a caller makes keys of.
KeyStrings == {"k1", "k2"}

\* cacheKey.Done(): pool.Put(cacheKey).  The caller releases a key between
\* two calls, as TestCacher does.
Done(key) ==
    /\ pc = "idle"
    /\ made = "ok"
    /\ key \notin pool
    /\ pool' = pool \cup {key}
    /\ UNCHANGED <<cfgVars, cache, keyStr, pc, frame, ret, prev, log, pre,
                   quiet, tasks, callsLeft, faultsLeft>>

\* NewCacheKey(key): pool.Get() hands out an object of the pool, or a new
\* one (always allowed to sync.Pool), and the key string is written in it.
NewCacheKey(key) ==
    /\ pc = "idle"
    /\ made = "ok"
    /\ \/ \E cacheKey \in pool :
            /\ keyStr' = [keyStr EXCEPT ![cacheKey] = key]
            /\ pool' = pool \ {cacheKey}
       \/ /\ Len(keyStr) < MaxKeyObjects
          /\ keyStr' = Append(keyStr, key)
          /\ pool' = pool
    /\ UNCHANGED <<cfgVars, cache, pc, frame, ret, prev, log, pre, quiet,
                   tasks, callsLeft, faultsLeft>>

\* The caller makes and releases keys around its calls.
KeyUse ==
    \/ \E key \in DOMAIN keyStr : Done(key)
    \/ \E key \in KeyStrings : NewCacheKey(key)

NextPool == Call \/ Step \/ Background \/ KeyUse

\* One call, and what it starts, over caches that hold "k1" in some levels
\* and whose calls all succeed.
InitPool ==
    \E a \in ArgSets :
        /\ a.nCaches <= MaxPoolLevels
        /\ Built(a)
        /\ made = "ok"
        /\ \E c \in Warm(ca.numCaches) : Start(c, 1, 0)

SpecPool == InitPool /\ [][NextPool]_vars

\* ------------------------------------- a caller that only puts and gets
\* Fresh caches under WriteAround, level calls that all succeed, and a
\* caller that makes Put and Get calls one after another.
InitSeq ==
    \E a \in ArgSets :
        /\ a.nCaches <= MaxSeqLevels
        /\ a.writePattern = WriteAround
        /\ Built(a)
        /\ made = "ok"
        /\ Start(Fresh(ca.numCaches), MaxSeqCalls, 0)

NextSeq ==
    \/ \E key \in Keys, val \in Buffers : PutCall(key, val)
    \/ \E key \in Keys : GetCall(key)
    \/ PutWriteAround
    \/ GetLookup
    \/ GetBackfill
    \/ GetReturn
    \/ \E i \in 1..Len(tasks) : BackfillStep(i)
    \/ \E i \in 1..Len(tasks) : BackfillNone(i)

SpecSeq == InitSeq /\ [][NextSeq]_vars

\* ------------------------- CacheAside reads against WriteThrough writes
\* Caches that hold "k1" in some levels (an item may have left a nearer
\* level and stayed in a farther one), CacheAside with WriteThrough, level
\* calls that all succeed, and a caller that makes Get and Put calls.
InitAside ==
    \E a \in ArgSets :
        /\ a.nCaches <= MaxAsideLevels
        /\ a.readPattern = CacheAside
        /\ a.writePattern = WriteThrough
        /\ Built(a)
        /\ made = "ok"
        /\ \E c \in Warm(ca.numCaches) : Start(c, MaxAsideCalls, 0)

NextAside ==
    \/ \E key \in Keys, val \in Buffers : PutCall(key, val)
    \/ \E key \in Keys : GetCall(key)
    \/ PutWriteThrough
    \/ GetLookup
    \/ GetReturn
    \/ \E i \in 1..Len(tasks) : BackfillStep(i)
    \/ \E i \in 1..Len(tasks) : BackfillNone(i)

SpecAside == InitAside /\ [][NextAside]_vars

\* ================================================================ claims
Levels == 1..ca.numCaches
\* What a fetch made directly against level b returns for key string k.
Fetch(b, k) == mockGet(cache[b], k).val
Present(c, b, k) == k \in DOMAIN c[b]
\* The last call, op, has returned (or ended in a panic).
Returned(op) == pc = "idle" /\ ret.op = op
Ended(op) == pc \in {"idle", "panic"} /\ ret.op = op
\* Some level call has failed.
Faulted == faultsLeft < MaxFaults

\* ---- C9
\* NewMultiLevelCache returns a cacher exactly when the number of caches is
\* in 1..5 and both patterns are defined ones; otherwise it returns nil and
\* the error of the first check that fails: no caches, too many caches, bad
\* read pattern, bad write pattern.
C9_ExpectedErr(a) ==
    IF a.nCaches = 0 THEN NoWorkableCacheFound
    ELSE IF a.nCaches > 5 THEN MaxCacheLevelExceeded
    ELSE IF a.readPattern \notin {ReadThrough, CacheAside}
    THEN InvalidReadPattern
    ELSE IF a.writePattern \notin {WriteThrough, WriteAround, WriteBack}
    THEN InvalidWritePattern
    ELSE NilErr

C9_ConstructionExact ==
    made # "no" =>
        /\ (made = "ok") <=> (C9_ExpectedErr(args) = NilErr)
        /\ newErr = C9_ExpectedErr(args)
        /\ made = "err" => ca = NoCacher /\ heap = <<>>

\* ---- C10
\* For every number of caches above 5, construction fails with "Max cache
\* level exceeded" and builds no chain.
C10_TooManyLevelsRejected ==
    (made # "no" /\ args.nCaches > 5) =>
        /\ made = "err"
        /\ newErr = MaxCacheLevelExceeded
        /\ ca = NoCacher
        /\ heap = <<>>

\* ---- C8
\* Under every write pattern a Put of a value longer than maxValSize returns
\* CacheStatusFailure with "Max val len exceeded", has called no level and
\* started no goroutine, and leaves every level as it was; a value whose
\* length equals maxValSize passes the check and reaches a level.
C8_Sized == Returned("Put") /\ ret.key # Nil /\ ret.val # NilBuf

C8_OversizedPutRejected ==
    /\ (C8_Sized /\ BufLen(ret.val) > ca.maxValSize) =>
          /\ ret.status = CacheStatusFailure
          /\ ret.err = MaxValLenExceeded
          /\ log = <<>>
          /\ quiet => cache = pre
    /\ (C8_Sized /\ BufLen(ret.val) <= ca.maxValSize) =>
          /\ ret.err # MaxValLenExceeded
          /\ log # <<>>

\* An oversized Put was turned away from a chain that holds the key.
C8_Witness ==
    /\ C8_Sized
    /\ BufLen(ret.val) > ca.maxValSize
    /\ ret.err = MaxValLenExceeded
    /\ \A b \in Levels : Present(cache, b, ret.k)

\* ---- C1
\* Under WriteThrough, for every chain length 1..5, once Put(k, v) has
\* returned CacheStatusSuccess (no goroutine having touched a level since
\* the call began) a fetch made directly against each level returns v.
C1_Case ==
    /\ Returned("Put")
    /\ ret.status = CacheStatusSuccess
    /\ ca.writePattern = WriteThrough
    /\ quiet

C1_WriteThroughReachesAll ==
    C1_Case =>
        /\ \A b \in Levels : Fetch(b, ret.k) = ret.val
        /\ log = [i \in Levels |-> <<"Put", i>>]

\* A second WriteThrough Put has overwritten another value in five levels.
C1_Witness ==
    /\ C1_Case
    /\ ca.numCaches = maxCaches
    /\ ret.val # NilBuf
    /\ prev.op = "Put" /\ prev.status /\ prev.val # ret.val
    /\ \A b \in Levels : Fetch(b, ret.k) = ret.val

\* ---- C2
\* Under WriteAround a Put that gets past the key and size checks calls Put
\* on level N only; whether it succeeds or fails, levels 1..N-1 are as they
\* were when it began, and after a success level N holds the value: on a
\* chain that was empty the key is then in level N and in no nearer level.
C2_Case ==
    /\ Ended("Put")
    /\ ca.writePattern = WriteAround
    /\ ret.key # Nil
    /\ ~TooLong(ret.val, ca.maxValSize)

C2_WriteAroundOnlyLast ==
    C2_Case =>
        /\ log = <<<<"Put", ca.numCaches>>>>
        /\ quiet => \A b \in Levels \ {ca.numCaches} : cache[b] = pre[b]
        /\ (quiet /\ ret.status = CacheStatusSuccess) =>
              /\ Present(cache, ca.numCaches, ret.k)
              /\ Fetch(ca.numCaches, ret.k) = ret.val
        /\ (quiet /\ ret.status = CacheStatusFailure) => cache = pre

\* A WriteAround Put into an empty chain of five: the key is in level 5 only.
C2_Witness ==
    /\ C2_Case
    /\ ret.status = CacheStatusSuccess
    /\ ca.numCaches = maxCaches
    /\ \A b \in Levels : pre[b] = EmptyMap
    /\ \A b \in Levels : Present(cache, b, ret.k) <=> b = ca.numCaches

\* A WriteAround Put failed at level 5, which keeps the value it had.
C2_WitnessFailed ==
    /\ C2_Case
    /\ pc = "idle"
    /\ ret.status = CacheStatusFailure
    /\ ca.numCaches = maxCaches
    /\ Present(cache, ca.numCaches, ret.k)
    /\ Fetch(ca.numCaches, ret.k) # ret.val

\* ---- C3
\* Under WriteBack, when Put returns CacheStatusSuccess it has called Put on
\* level 1 only and started one goroutine, and that goroutine is still in
\* its sleep: it has stored nothing, so levels 2..N are as they were when
\* the Put began (levels without the key still lack it).
C3_WriteBackOnlyFirst ==
    [][(pc = "put_ret" /\ pc' = "idle") =>
          /\ ca.writePattern = WriteBack
          /\ ret'.op = "Put"
          /\ ret'.status = CacheStatusSuccess
          /\ log' = << <<"Put", 1>>, <<"go", 1>> >>
          /\ tasks' # <<>>
          /\ LET t == tasks'[Len(tasks')]
             IN /\ t.kind = "wb"
                /\ t.asleep
                /\ t.key = ret'.key
                /\ t.val = ret'.val
          /\ quiet' => \A b \in Levels \ {1} : cache'[b] = pre'[b]]_vars

\* A WriteBack Put into an empty chain of five has returned: level 1 has
\* the value, levels 2..5 do not, the goroutine sleeps.
C3_Witness ==
    /\ Returned("Put")
    /\ ret.status = CacheStatusSuccess
    /\ ca.writePattern = WriteBack
    /\ ca.numCaches = maxCaches
    /\ ret.val # NilBuf
    /\ Fetch(1, ret.k) = ret.val
    /\ \A b \in Levels \ {1} : ~Present(cache, b, ret.k)
    /\ Len(tasks) = 1 /\ tasks[1].asleep

\* ---- C5
\* For each of the six pattern pairs, on a chain of three fresh caches whose
\* calls all succeed, a successful Put(k, v) of a non-empty v followed by
\* Get(k) returns exactly v and a nil error.
C5_Case ==
    /\ Returned("Get")
    /\ ca.numCaches = 3
    /\ callsLeft = MaxCalls - 2
    /\ ~Faulted
    /\ prev.op = "Put"
    /\ prev.status = CacheStatusSuccess
    /\ prev.val # NilBuf
    /\ BufLen(prev.val) > 0
    /\ ret.key # Nil
    /\ ret.k = prev.k

C5_PutThenGet ==
    C5_Case => ret.val = prev.val /\ ret.err = NilErr

\* Put then Get under WriteAround and CacheAside, the backfill still to run.
C5_Witness ==
    /\ C5_Case
    /\ ca.writePattern = WriteAround
    /\ ca.readPattern = CacheAside
    /\ ret.val = prev.val
    /\ ret.lvl = 3
    /\ tasks # <<>>

\* ---- C6
\* Under ReadThrough, when Get finds the value at level j and returns it, it
\* has called Get on levels 1..j, then Put on levels j-1, ..., 1 in that
\* order, and nothing else, all before returning: every level 1..j holds the
\* returned value and levels j+1..N are as they were; when no level call
\* has failed, j is the first level that held a value for the key.
C6_Case ==
    /\ Returned("Get")
    /\ ca.readPattern = ReadThrough
    /\ ret.err = NilErr
    /\ ret.val # NilBuf

C6_Log(j) ==
    [i \in 1..(2 * j - 1) |->
        IF i <= j THEN <<"Get", i>> ELSE <<"Put", 2 * j - i>>]

C6_ReadThroughBackfills ==
    C6_Case =>
        /\ ret.lvl \in Levels
        /\ log = C6_Log(ret.lvl)
        /\ quiet =>
              /\ \A b \in 1..ret.lvl : Fetch(b, ret.k) = ret.val
              /\ \A b \in Levels : b > ret.lvl => cache[b] = pre[b]
              /\ mockGet(pre[ret.lvl], ret.k).val = ret.val
        /\ (quiet /\ ~Faulted) =>
              \A b \in 1..(ret.lvl - 1) : mockGet(pre[b], ret.k).val = NilBuf

\* A hit at level 3 of 5 with levels 1 and 2 empty before and level 4
\* holding another value.
C6_Witness ==
    /\ C6_Case
    /\ ca.numCaches = maxCaches
    /\ ret.lvl = 3
    /\ pre[1] = EmptyMap /\ pre[2] = EmptyMap
    /\ Present(cache, 4, ret.k) /\ Fetch(4, ret.k) # ret.val
    /\ Fetch(1, ret.k) = ret.val /\ Fetch(2, ret.k) = ret.val

\* ---- C4
\* Under WriteBack, after a Put has returned CacheStatusSuccess and with no
\* other call, the goroutine stores the value in levels 2, 3, ..., N in
\* increasing order (whenever it is about to call a level, every nearer
\* level holds the value) and, unless a level call fails, every level
\* 1..N comes to hold the value.
C4_Case ==
    /\ Returned("Put")
    /\ ret.status = CacheStatusSuccess
    /\ ca.writePattern = WriteBack

C4_InOrder ==
    \A i \in 1..Len(tasks) :
        (tasks[i].kind = "wb" /\ ~tasks[i].asleep) =>
            \A b \in 1..(Cur(tasks[i].at) - 1) :
                Fetch(b, AsString(tasks[i].key)) = tasks[i].val

C4_AllHold == \A b \in Levels : Fetch(b, ret.k) = ret.val

C4_WriteBackPropagates ==
    /\ []C4_InOrder
    /\ C4_Case ~> (C4_AllHold \/ Faulted)

\* The goroutine of a WriteBack Put is about to store in level 4 of 5,
\* level 5 still holding another value.
C4_Witness ==
    /\ C4_Case
    /\ ca.numCaches = maxCaches
    /\ ret.val # NilBuf
    /\ Len(tasks) = 1
    /\ ~tasks[1].asleep
    /\ Cur(tasks[1].at) = 4
    /\ \A b \in 1..3 : Fetch(b, ret.k) = ret.val
    /\ Fetch(5, ret.k) # ret.val

\* The propagation is over: all five levels hold the value.
C4_WitnessDone ==
    /\ C4_Case
    /\ ca.numCaches = maxCaches
    /\ ret.val # NilBuf
    /\ tasks = <<>>
    /\ ~Faulted
    /\ C4_AllHold
    /\ \E b \in Levels : pre[b] = EmptyMap

\* ---- C7
\* Under CacheAside a Get that hits at level j returns the value and a nil
\* error having called Get on levels 1..j and started one goroutine, and
\* no Put: the backfill of levels j-1..1 is the goroutine's, whatever comes
\* of it; with no other call, and unless a level call fails, every level
\* 1..j-1 comes to hold the value.
C7_Case ==
    /\ Returned("Get")
    /\ ca.readPattern = CacheAside
    /\ ret.lvl > 0

C7_Filled == \A b \in 1..(ret.lvl - 1) : Fetch(b, ret.k) = ret.val

C7_CacheAsideReturnsFirst ==
    /\ [](C7_Case =>
            /\ ret.err = NilErr
            /\ ret.val # NilBuf
            /\ log = [i \in 1..ret.lvl |-> <<"Get", i>>]
                        \o << <<"go", ret.lvl - 1>> >>
            /\ quiet => mockGet(pre[ret.lvl], ret.k).val = ret.val)
    /\ C7_Case ~> (C7_Filled \/ Faulted)

\* Get has returned the value found at level 4 and no nearer level has it
\* yet: the goroutine has still to run.
C7_Witness ==
    /\ C7_Case
    /\ ret.lvl = 4
    /\ ret.val # NilBuf
    /\ Len(tasks) = 1
    /\ Cur(tasks[1].at) = 3
    /\ \A b \in 1..3 : ~Present(cache, b, ret.k)

\* Get has returned the value although a put of its backfill failed.
C7_WitnessFailedBackfill ==
    /\ C7_Case
    /\ ret.lvl = 3
    /\ ret.err = NilErr
    /\ tasks = <<>>
    /\ Faulted
    /\ Fetch(2, ret.k) # ret.val
    /\ Fetch(1, ret.k) = ret.val

\* ---- C11
\* Under ReadThrough, when a put of the backfill fails (an error, or
\* CacheStatusFailure with or without an error) Get stops at that level: the
\* failed Put is its last level call, it returns a nil value, and it returns
\* a non-nil error, which tells the outcome from a miss.
C11_Case ==
    /\ Returned("Get")
    /\ ca.readPattern = ReadThrough
    /\ ret.lvl > 0
    /\ ret.val = NilBuf

C11_BackfillFailureReported ==
    C11_Case =>
        /\ Len(log) > ret.lvl
        /\ log[Len(log)][1] = "Put"
        /\ quiet => \A b \in 1..(log[Len(log)][2]) : cache[b] = pre[b]
        /\ ret.err # NilErr

\* ---- C12
\* Under both read patterns a Get for which no level yields a value (the key
\* is missing, or the level's Get returns an error) has called Get on levels
\* 1..N in order and nothing else, has started no goroutine, has stored
\* nothing, and returns a nil value with a nil error; and when no level
\* holds a value for the key, this is what Get does.
C12_Held(c, b, k) == Present(c, b, k) /\ c[b][k] # NilBuf

C12_Miss ==
    /\ Returned("Get")
    /\ ret.key # Nil
    /\ ret.lvl = 0

C12_MissIsNotAFailure ==
    /\ C12_Miss =>
          /\ log = [i \in Levels |-> <<"Get", i>>]
          /\ ret.val = NilBuf
          /\ ret.err = NilErr
          /\ quiet => cache = pre
          /\ (quiet /\ ~Faulted) =>
                \A b \in Levels : ~C12_Held(pre, b, ret.k)
    /\ (/\ Returned("Get")
        /\ ret.key # Nil
        /\ quiet
        /\ \A b \in Levels : ~C12_Held(pre, b, ret.k)) => C12_Miss

\* A CacheAside Get over five levels missed although level 3 holds a value:
\* the Get of level 3 returned an error.
C12_Witness ==
    /\ C12_Miss
    /\ ca.readPattern = CacheAside
    /\ ca.numCaches = maxCaches
    /\ Faulted
    /\ C12_Held(cache, 3, ret.k)
    /\ Len(log) = maxCaches
    /\ tasks = <<>>

\* A ReadThrough Get over five empty levels missed.
C12_WitnessEmpty ==
    /\ C12_Miss
    /\ ca.readPattern = ReadThrough
    /\ ca.numCaches = maxCaches
    /\ \A b \in Levels : pre[b] = EmptyMap
    /\ cache = pre

\* ---- C13
\* Del(k) calls Del on levels N, N-1, ..., 1 in that order and stops at the
\* first level j that returns an error or CacheStatusFailure: it then
\* returns CacheStatusFailure, levels N..j+1 no longer hold k and levels
\* j..1 are as they were; when no level fails it returns CacheStatusSuccess
\* and no level holds k.
C13_Case == Ended("Del") /\ ret.key # Nil

\* The level of the last Del the call made.
C13_Last == ca.numCaches - Len(log) + 1

C13_Walk ==
    C13_Case =>
        /\ Len(log) \in 1..ca.numCaches
        /\ log = [i \in 1..Len(log) |-> <<"Del", ca.numCaches - i + 1>>]
        /\ ret.status = CacheStatusSuccess =>
              /\ Len(log) = ca.numCaches
              /\ ret.err = NilErr
              /\ quiet => \A b \in Levels : ~Present(cache, b, ret.k)
        /\ ret.status = CacheStatusFailure =>
              /\ Faulted
              /\ quiet => /\ \A b \in Levels :
                                b > C13_Last => ~Present(cache, b, ret.k)
                          /\ \A b \in 1..C13_Last : cache[b] = pre[b]

C13_DelReverseFailFast ==
    /\ C13_Walk
    /\ C13_Case => pc = "idle" /\ ret.err # Panic

\* ---- C14
\* IsPresent(k) calls IsPresent on level 1 and nothing else, and changes no
\* level; what it answers follows from level 1 alone: CacheStatusSuccess
\* when level 1 holds k, and otherwise it returns CacheStatusFailure (not
\* present) to its caller, also when a farther level holds a value for k
\* that Get(k) would return.
C14_Case == Ended("IsPresent") /\ ret.key # Nil

C14_LevelOneOnly ==
    C14_Case =>
        /\ log = << <<"IsPresent", 1>> >>
        /\ quiet => cache = pre
        /\ (quiet /\ ~Faulted) =>
              (ret.status = CacheStatusSuccess <=> Present(pre, 1, ret.k))

\* Level 1 lacks k and a farther level holds a value for it.
C14_Farther ==
    /\ ~Present(pre, 1, ret.k)
    /\ \E b \in Levels : C12_Held(pre, b, ret.k)

C14_IsPresentLevelOneOnly ==
    /\ C14_LevelOneOnly
    /\ (C14_Case /\ quiet /\ C14_Farther) =>
          /\ pc = "idle"
          /\ ret.status = CacheStatusFailure
          /\ ret.err # Panic

\* ---- C15
\* Flush starts exactly one goroutine per level 1..N, each to clear its
\* level, and returns a nil error at once: at its return no level has been
\* cleared by it, and the nil error stands whatever the goroutines do.  In a
\* program that keeps running, with no call after the Flush, every level
\* comes to be empty unless a level's Flush fails.
C15_FlushStep == pc = "idle" /\ pc' = "idle" /\ callsLeft' < callsLeft
                    /\ ret'.op = "Flush"

C15_AllEmpty == \A b \in Levels : cache[b] = EmptyMap

C15_FlushClearsAll ==
    /\ [][C15_FlushStep =>
            /\ ret'.err = NilErr
            /\ cache' = cache
            /\ log' = [i \in Levels |-> <<"go", i>>]
            /\ Len(tasks') = Len(tasks) + ca.numCaches
            /\ \A i \in 1..Len(tasks) : tasks'[i] = tasks[i]
            /\ \A i \in Levels :
                  /\ tasks'[Len(tasks) + i].kind = "flush"
                  /\ Cur(tasks'[Len(tasks) + i].at) = i]_vars
    /\ [](Returned("Flush") => ret.err = NilErr)
    /\ Returned("Flush") ~> (C15_AllEmpty \/ Faulted)

\* Flush has returned and its five goroutines have yet to run: every level
\* still holds the key.
C15_Witness ==
    /\ Returned("Flush")
    /\ ca.numCaches = maxCaches
    /\ Len(tasks) = maxCaches
    /\ \A b \in Levels : Present(cache, b, "k1")

\* The goroutines are done and the five levels, which held the key, are
\* empty.
C15_WitnessDone ==
    /\ Returned("Flush")
    /\ ca.numCaches = maxCaches
    /\ tasks = <<>>
    /\ \A b \in Levels : Present(pre, b, "k1")
    /\ C15_AllEmpty

\* A level's Flush failed: Flush had returned nil, the level keeps the key.
C15_WitnessFailed ==
    /\ Returned("Flush")
    /\ ret.err = NilErr
    /\ tasks = <<>>
    /\ Faulted
    /\ \E b \in Levels : Present(cache, b, "k1")

\* ---- C16
\* Get, Put, Del and IsPresent called with a nil key return at once: a
\* failure with "Get error", "Put error", "Del error" or "IsPresent error"
\* (for Get a nil value with it), no level called, no goroutine started, no
\* level changed; Put answers "Put error" for a nil key also when the value
\* is longer than maxValSize.
C16_ErrorOf(op) ==
    IF op = "Get" THEN GetError
    ELSE IF op = "Put" THEN PutError
    ELSE IF op = "Del" THEN DelError
    ELSE IsPresentError

C16_Case ==
    /\ pc \in {"idle", "panic"}
    /\ ret.op \in {"Get", "Put", "Del", "IsPresent"}
    /\ ret.key = Nil

C16_NilKeyRejected ==
    C16_Case =>
        /\ pc = "idle"
        /\ ret.status = CacheStatusFailure
        /\ ret.err = C16_ErrorOf(ret.op)
        /\ ret.op = "Get" => ret.val = NilBuf
        /\ log = <<>>
        /\ quiet => cache = pre

\* Put(nil, v) with v longer than maxValSize on a chain that holds a key.
C16_Witness ==
    /\ C16_Case
    /\ ret.op = "Put"
    /\ TooLong(ret.val, ca.maxValSize)
    /\ ret.err = PutError
    /\ \E b \in Levels : Present(cache, b, "k1")

\* IsPresent(nil) after a Del(nil).
C16_WitnessOthers ==
    /\ C16_Case
    /\ ret.op = "IsPresent"
    /\ prev.op = "Del" /\ prev.key = Nil /\ prev.err = DelError

\* ---- C17
\* When a level call of a Put (any write pattern), a Del or an IsPresent
\* returns an error, or CacheStatusFailure without an error, the call
\* returns normally: CacheStatusFailure with a non-nil error that ends in
\* "; Put error", "; Del error" or "; IsPresent error".  No such answer of a
\* level makes the call panic.
C17_Case ==
    /\ pc \in {"idle", "panic"}
    /\ ret.op \in {"Put", "Del", "IsPresent"}
    /\ ret.key # Nil
    /\ ret.status = CacheStatusFailure
    /\ ~(ret.op = "Put" /\ TooLong(ret.val, ca.maxValSize))

C17_FailureWrapped ==
    C17_Case =>
        /\ pc = "idle"
        /\ ret.err # NilErr
        /\ ret.err = LevelError \o "; " \o C16_ErrorOf(ret.op)

\* ---- C18
\* Releasing a key with Done() once the Put or Get that used it has returned
\* changes nothing in the caches: every store that a call on key string s
\* brings about, the stores of its WriteBack and CacheAside goroutines
\* included, is made under s, also when NewCacheKey hands the released
\* object out again with another string before the goroutine runs.  So
\* after one Put or Get made with s, a level holds no key string it did not
\* hold before, except s.
C18_Case ==
    /\ pc = "idle"
    /\ ret.op \in {"Put", "Get"}
    /\ ret.key # Nil

C18_StoredUnderCallKey ==
    C18_Case =>
        \A b \in Levels : DOMAIN cache[b] \subseteq DOMAIN pre[b] \cup {ret.k}

\* ---- C19
\* Under WriteAround, with level calls that all succeed and one caller whose
\* calls follow one another, whatever Puts and Gets came before: when
\* Put(k, v) has returned CacheStatusSuccess, the Get(k) that follows
\* returns v, and under ReadThrough its backfill has left v in every level,
\* also when the nearer levels held an earlier value for k.
C19_Case ==
    /\ Returned("Get")
    /\ ca.writePattern = WriteAround
    /\ ret.key # Nil
    /\ prev.op = "Put"
    /\ prev.status = CacheStatusSuccess
    /\ prev.val # NilBuf
    /\ prev.k = ret.k

C19_PutVisibleToGet ==
    C19_Case =>
        /\ ret.val = prev.val
        /\ ca.readPattern = ReadThrough =>
              \A b \in Levels : Fetch(b, ret.k) = prev.val

\* ---- C20
\* Under WriteThrough, Put calls Put on levels 1, 2, ... in that order and
\* stops at the first level j that returns an error or CacheStatusFailure:
\* it then returns CacheStatusFailure, levels 1..j-1 hold the new value and
\* levels j..N are as they were; it returns CacheStatusSuccess only when
\* the Put of every level 1..N has succeeded.
C20_Case ==
    /\ Ended("Put")
    /\ ca.writePattern = WriteThrough
    /\ ret.key # Nil
    /\ ~TooLong(ret.val, ca.maxValSize)

C20_Walk ==
    C20_Case =>
        /\ Len(log) \in 1..ca.numCaches
        /\ log = [i \in 1..Len(log) |-> <<"Put", i>>]
        /\ ret.status = CacheStatusSuccess =>
              /\ Len(log) = ca.numCaches
              /\ ret.err = NilErr
              /\ ~Faulted
        /\ ret.status = CacheStatusFailure =>
              /\ Faulted
              /\ quiet =>
                    /\ \A b \in 1..(Len(log) - 1) :
                          /\ Present(cache, b, ret.k)
                          /\ cache[b][ret.k] = ret.val
                    /\ \A b \in Levels : b >= Len(log) => cache[b] = pre[b]

C20_WriteThroughFailFast ==
    /\ C20_Walk
    /\ C20_Case => pc = "idle" /\ ret.err # Panic

\* ---- C21
\* Under WriteBack what Put returns follows from the Put of level 1 alone.
\* When that Put fails, Put has called nothing else and started no
\* goroutine, and no level is changed.  When it succeeds Put returns
\* CacheStatusSuccess and a nil error, whatever the goroutine meets; the
\* goroutine stores in levels 2, 3, ... and ends at the first level whose
\* Put fails: that level and the farther ones are as they were, and nothing
\* stores in them afterwards.
C21_Case ==
    /\ Ended("Put")
    /\ ca.writePattern = WriteBack
    /\ ret.key # Nil
    /\ ~TooLong(ret.val, ca.maxValSize)

\* Levels 1..j hold the value of the Put, the farther ones are untouched.
C21_WrittenUpTo(j) ==
    /\ \A b \in 1..j : Present(cache, b, ret.k) /\ cache[b][ret.k] = ret.val
    /\ \A b \in Levels : b > j => cache[b] = pre[b]

C21_Spent == faultsLeft = 0

C21_WriteBackBestEffort ==
    /\ [](C21_Case =>
            /\ ret.status = CacheStatusFailure =>
                  /\ log = << <<"Put", 1>> >>
                  /\ tasks = <<>>
                  /\ cache = pre
            /\ ret.status = CacheStatusSuccess =>
                  /\ pc = "idle"
                  /\ ret.err = NilErr
                  /\ log = << <<"Put", 1>>, <<"go", 1>> >>
                  /\ tasks = <<>> =>
                        \E j \in Levels :
                            /\ C21_WrittenUpTo(j)
                            /\ j < ca.numCaches => C21_Spent)
    /\ [][(/\ C21_Case
           /\ tasks # <<>>
           /\ ~tasks[1].asleep
           /\ faultsLeft' < faultsLeft) =>
              /\ tasks' = <<>>
              /\ cache' = cache
              /\ ret' = ret]_vars

\* The goroutine of a WriteBack Put over five levels ended at level 3, whose
\* Put failed: levels 1 and 2 hold the value, levels 3..5 hold another.
C21_Witness ==
    /\ C21_Case
    /\ ret.status = CacheStatusSuccess
    /\ ca.numCaches = maxCaches
    /\ ret.val # NilBuf
    /\ tasks = <<>>
    /\ C21_Spent
    /\ C21_WrittenUpTo(2)
    /\ \A b \in 3..maxCaches :
          Present(cache, b, ret.k) /\ cache[b][ret.k] # ret.val

\* The Put of level 1 failed: nothing is started, nothing is changed.
C21_WitnessFailed ==
    /\ C21_Case
    /\ ret.status = CacheStatusFailure
    /\ ca.numCaches = maxCaches
    /\ tasks = <<>>
    /\ \A b \in Levels : Present(cache, b, ret.k)

\* ---- C22
\* In every state of a cacher that NewMultiLevelCache has handed out,
\* whatever calls were made: the chain has exactly numCaches nodes,
\* 1 <= numCaches <= 5; the i-th node from l1Cache wraps the i-th cache and
\* the last is lnCache; l1Cache.prev and lnCache.next are nil; x.next.prev
\* = x and x.prev.next = x along the chain; no node occurs twice; and the
\* chain, the two patterns and maxValSize are what the construction made.
RECURSIVE C22_Node(_)
C22_Node(i) == IF i = 1 THEN ca.l1Cache ELSE heap[C22_Node(i - 1)].next

C22_ChainIntact ==
    made = "ok" =>
        /\ ca.numCaches \in 1..maxCaches
        /\ DOMAIN heap = 1..ca.numCaches
        /\ \A i \in Levels : C22_Node(i) \in DOMAIN heap
        /\ \A i \in Levels : Cur(C22_Node(i)) = i
        /\ \A i, j \in Levels : C22_Node(i) = C22_Node(j) => i = j
        /\ C22_Node(ca.numCaches) = ca.lnCache
        /\ heap[ca.l1Cache].prev = Nil
        /\ heap[ca.lnCache].next = Nil
        /\ \A i \in Levels :
              /\ i < ca.numCaches =>
                    heap[heap[C22_Node(i)].next].prev = C22_Node(i)
              /\ i > 1 => heap[heap[C22_Node(i)].prev].next = C22_Node(i)
        /\ Built(args)
        /\ ca.readPattern \in {ReadThrough, CacheAside}
        /\ ca.writePattern \in {WriteThrough, WriteAround, WriteBack}
        /\ ca.maxValSize = args.maxValSize

\* A chain of five after a Put and a Del, a goroutine of the Put still
\* under way.
C22_Witness ==
    /\ made = "ok"
    /\ ca.numCaches = maxCaches
    /\ Returned("Del")
    /\ prev.op = "Put"
    /\ tasks # <<>>
    /\ \E b \in Levels : Present(cache, b, "k1")

\* ---- C23
\* Once Del(k) has returned CacheStatusSuccess, and for as long as no call
\* follows it (so no Put(k) does), no level holds k, whatever the
\* goroutines started before the Del (WriteBack propagation, CacheAside
\* backfill) do and whenever they run.
C23_Case ==
    /\ Returned("Del")
    /\ ret.status = CacheStatusSuccess

C23_DeletedStaysDeleted ==
    C23_Case => \A b \in Levels : ~Present(cache, b, ret.k)

\* ---- C24
\* Under WriteBack, with level calls that all succeed: when Put(k, v1) has
\* returned before Put(k, v2) is called and nothing else writes k, then once
\* the goroutines of both Puts have ended every level 1..N holds v2.
C24_Case ==
    /\ Returned("Put")
    /\ ca.writePattern = WriteBack
    /\ ret.status = CacheStatusSuccess
    /\ prev.op = "Put"
    /\ prev.status = CacheStatusSuccess
    /\ prev.k = ret.k
    /\ prev.val # NilBuf
    /\ ret.val # NilBuf
    /\ ~Faulted
    /\ tasks = <<>>

C24_LastWriteWins ==
    C24_Case => \A b \in Levels : Fetch(b, ret.k) = ret.val

\* ---- C25
\* With CacheAside and WriteThrough and level calls that all succeed: once
\* Put(k, v2) has returned CacheStatusSuccess and every backfill goroutine
\* has ended, every level 1..N holds v2; the backfill of a Get(k) that
\* returned an older value before the Put does not put that value over v2.
C25_Case ==
    /\ Returned("Put")
    /\ ca.readPattern = CacheAside
    /\ ca.writePattern = WriteThrough
    /\ ret.status = CacheStatusSuccess
    /\ ret.val # NilBuf
    /\ prev.op = "Get"
    /\ prev.lvl > 0
    /\ prev.k = ret.k
    /\ tasks = <<>>

C25_BackfillKeepsNewer ==
    C25_Case => \A b \in Levels : Fetch(b, ret.k) = ret.val

====
